---- MODULE Spec2Model ----
(***************************************************************************)
(* dynamic_graph (src/src/lib.rs): a Graph owns an arena of value cells    *)
(* (Base inputs and Res computed cells) and hands out Node handles that    *)
(* carry an index into the arena.  The client calls initial, compute, get  *)
(* and set; compute and get run client closures, which themselves call     *)
(* get, initial and compute on the same graph.                             *)
(*                                                                         *)
(* Every client call is one action.  A call runs the code to completion on *)
(* a machine record (arena, recording slot, call stack): Step is one step  *)
(* of the code at the top stack frame and Run iterates it until the call   *)
(* has returned or panicked.  RefCell borrows are held exactly while the   *)
(* frame that took them is on the stack, so they are read off the stack.   *)
(* References are 0-based as in the source; cell r is content[r + 1].      *)
(***************************************************************************)
EXTENDS Integers, Sequences, FiniteSets, TLC

\* The bound of the model: the cells a graph grows to.  The diamond of four
\* cells needs one more, and has a specification of its own (SpecWide).
MaxCells == 3
WideCells == MaxCells + 1
\* A compute whose closure panics leaves its buffer in the recording slot,
\* and every compute after it appends to what it finds there: the calls are
\* taken while the buffer holds at most MaxSlot references.
MaxSlot == 2

\* T, the graph's value type: two values tell a stale value from a fresh one.
Vals == {0, 1}
Refs(n) == 0..(n - 1)

\* Option<X>: None is the empty sequence, Some(x) the one-element sequence.
None == <<>>
Some(x) == <<x>>
IsSome(o) == o # <<>>
Unwrap(o) == o[1]

SeqToSet(s) == {s[i] : i \in 1..Len(s)}

VARIABLES
    content,                 \* InternalGraph.content: the arena, a sequence of cells
    current_execution_deps,  \* InternalGraph.current_execution_deps: Option<Vec<ValueRef>>
    handles,                 \* the Node handles returned so far, in order of return
    runs,                    \* per cell: invocations of its closure during the latest client call
    reads,                   \* per cell: what its closure read in its latest run of the latest client call
    last                     \* the latest client call and how it ended

vars == <<content, current_execution_deps, handles, runs, reads, last>>

(***************************************************************************)
(* Client closures.  A closure is a sequence of instructions; each get     *)
(* adds the value read to an accumulator and the closure returns           *)
(* accumulator + 1 (in T), as `a.get() + 6` does in tests::graph.          *)
(*   get h      call Node::get on the handle carrying reference h (the     *)
(*              closure holds a slot for the handle: while no such handle  *)
(*              has been returned the slot is empty and the read skipped)  *)
(*   getz h     the same, but only when the accumulator is 0 so far: a     *)
(*              read that depends on the values read before it             *)
(*   initial v  call Graph::initial(v)                                     *)
(*   compute c  call Graph::compute(c)                                     *)
(*   initialnz v, computenz c                                              *)
(*              the same, but only when the accumulator is not 0 so far:   *)
(*              a creation that depends on the values read before it       *)
(*   set h v    call SettableNode::set(v) (client level only)              *)
(***************************************************************************)
Instr(op, h, v, c) == [op |-> op, h |-> h, v |-> v, c |-> c]
Rd(h) == Instr("get", h, 0, <<>>)
RdZ(h) == Instr("getz", h, 0, <<>>)
MkInitial(v) == Instr("initial", 0, v, <<>>)
MkCompute(c) == Instr("compute", 0, 0, c)
MkInitialNZ(v) == Instr("initialnz", 0, v, <<>>)
MkComputeNZ(c) == Instr("computenz", 0, 0, c)
DoSet(h, v) == Instr("set", h, v, <<>>)

\* The closure a closure hands to a nested compute.
InnerClosure == <<Rd(0)>>

\* The closures the client registers in a graph of up to n cells: they read
\* one node, two neighbouring nodes, a second node depending on the first,
\* or create a node.
Closures(n) ==
    {<<Rd(h)>> : h \in Refs(n)}
    \cup {<<Rd(j), Rd(j + 1)>> : j \in Refs(n - 1)}
    \cup {<<Rd(0), RdZ(1)>>}
    \cup {<<MkInitial(0)>>, <<MkCompute(InnerClosure)>>}

\* The closures of a client that creates nodes depending on what it reads:
\* they read one node, or read the first node and create a node when its
\* value is not 0.
NestedClosures(n) ==
    {<<Rd(h)>> : h \in Refs(n)}
    \cup {<<Rd(0), MkInitialNZ(0)>>, <<Rd(0), MkComputeNZ(InnerClosure)>>}

\* The value a closure returns after reading values that sum to acc.
Result(acc) == (acc + 1) % Cardinality(Vals)

\* Cells a call of compute(c) appends at most: its own and those its
\* closure creates.
Cost(c) ==
    1 + Len(SelectSeq(c, LAMBDA i : i.op \in {"initial", "initialnz"}))
      + Len(SelectSeq(c, LAMBDA i : i.op \in {"compute", "computenz"}))

(***************************************************************************)
(* Value cells.                                                            *)
(***************************************************************************)
BaseValue(v) ==
    [kind |-> "Base", dirty |-> TRUE, epoch |-> 0, value |-> v,
     deps |-> <<>>, generator |-> <<>>]

\* A Res cell that is built Clean.
ResultValue_clean(v, my_deps, f) ==
    [kind |-> "Res", dirty |-> FALSE, epoch |-> 0, value |-> v,
     deps |-> my_deps, generator |-> f]

ResultValue(v, my_deps, f) ==
    [kind |-> "Res", dirty |-> TRUE, epoch |-> 0, value |-> v,
     deps |-> my_deps, generator |-> f]

\* A set_value that marks the written cell Clean.
set_value_clean(cell, t) == [cell EXCEPT !.value = t, !.dirty = FALSE]

set_value(cell, t) == [cell EXCEPT !.value = t]
is_dirty(cell) == cell.dirty

(***************************************************************************)
(* InternalGraph.                                                          *)
(***************************************************************************)
\* A next_ref that is one past the index the next push returns.
next_ref_past(c) == Len(c) + 1

next_ref(c) == Len(c)

\* replace_deps and take_deps: the slot afterwards, and the Option returned.
replace_deps(slot, new) == [slot |-> Some(new), old |-> slot]
take_deps(slot) == [slot |-> None, old |-> slot]

\* push_value: the arena afterwards, and content.len() - 1.
push_value(c, value) == [content |-> Append(c, value), ref |-> Len(c)]

\* A set_dirty that writes the flag with the wrong value.
set_dirty_inverted(c, val_ref) ==
    [n \in 1..Len(c) |-> [c[n] EXCEPT !.dirty = FALSE]]

\* set_dirty has an empty body.
set_dirty(c, val_ref) == c

(***************************************************************************)
(* The machine a client call runs on.                                      *)
(***************************************************************************)
Frame(k, code, cell, value_ref, parent_deps) ==
    [k |-> k, code |-> code, pc |-> 1, acc |-> 0, rd |-> <<>>,
     cell |-> cell, value_ref |-> value_ref, parent_deps |-> parent_deps]

Top(m) == m.stack[Len(m.stack)]
Pop(s) == SubSeq(s, 1, Len(s) - 1)

\* A Node::get that is running a generator holds: a shared borrow of the
\* graph (line 228), a shared borrow of content (line 81) and the exclusive
\* borrow of its own cell (line 82).
GraphBorrowed(m) == \E i \in 1..Len(m.stack) : m.stack[i].k = "get"
ContentBorrowed(m) == \E i \in 1..Len(m.stack) : m.stack[i].k = "get"
CellBorrowed(m, r) ==
    \E i \in 1..Len(m.stack) : m.stack[i].k = "get" /\ m.stack[i].cell = r

\* with_value, lines 77-86, up to the call of f: the lookup and the exclusive
\* borrow of the cell; "ok" when f is called on the cell.
with_value(m, val_ref) ==
    IF val_ref >= Len(m.content) THEN "this should never happen"
    ELSE IF CellBorrowed(m, val_ref) THEN "already borrowed"
    ELSE "ok"

IssuedRefs(h) == {h[i].ref : i \in 1..Len(h)}

\* A panic unwinds to the client; every borrow is dropped on the way.
Panic(m, why) == [m EXCEPT !.stack = <<>>, !.status = why]

\* The call at the top frame's pc has returned: the frame goes on.
\* add is the value a get returned, rd the reference that get read.
Advance(m, add, rd) ==
    LET n == Len(m.stack) IN
    [m EXCEPT !.stack[n].pc = @ + 1,
              !.stack[n].acc = @ + add,
              !.stack[n].rd = @ \o rd]

\* A get that serves the value stored in a Res cell and runs no generator.
node_get_cached(m, h) ==
    IF with_value(m, h) # "ok"
    THEN Panic(m, with_value(m, h))
    ELSE LET v == m.content[h + 1] IN
         [Advance(m, v.value, <<h>>) EXCEPT !.ret = v.value]

\* A get that takes no exclusive borrow of the cell: on a cell whose
\* generator is running it serves the stored value.
node_get_unchecked(m, h) ==
    IF h >= Len(m.content)
    THEN Panic(m, "this should never happen")
    ELSE LET v == m.content[h + 1] IN
         IF v.kind = "Res" /\ ~CellBorrowed(m, h)
         THEN [m EXCEPT !.stack = Append(@, Frame("get", v.generator, h, 0, None)),
                        !.runs[h + 1] = @ + 1]
         ELSE [Advance(m, v.value, <<h>>) EXCEPT !.ret = v.value]

\* A get that marks a Res cell Clean before it runs the generator.
node_get_marks_first(m, h) ==
    IF with_value(m, h) # "ok"
    THEN Panic(m, with_value(m, h))
    ELSE LET v == m.content[h + 1] IN
         IF v.kind = "Res"
         THEN [m EXCEPT !.stack = Append(@, Frame("get", v.generator, h, 0, None)),
                        !.content[h + 1].dirty = FALSE,
                        !.runs[h + 1] = @ + 1]
         ELSE [Advance(m, v.value, <<h>>) EXCEPT !.ret = v.value]

\* Node::get, lines 227-233.
node_get(m, h) ==
    IF with_value(m, h) # "ok"
    THEN Panic(m, with_value(m, h))
    ELSE LET v == m.content[h + 1] IN
         IF v.kind = "Res"
         THEN [m EXCEPT !.stack = Append(@, Frame("get", v.generator, h, 0, None)),
                        !.runs[h + 1] = @ + 1]
         ELSE [Advance(m, v.value, <<h>>) EXCEPT !.ret = v.value]

\* The generator's closure has run to its end (line 188): get returns.
generator_return(m) ==
    LET f == Top(m)
        t == Result(f.acc)
        m1 == [m EXCEPT !.stack = Pop(@), !.reads[f.cell + 1] = f.rd]
    IN [Advance(m1, t, <<f.cell>>) EXCEPT !.ret = t]

\* An initial that takes no exclusive borrow of the graph before it pushes.
initial_unchecked(m, v) ==
    LET p == push_value(m.content, BaseValue(v)) IN
    [Advance(m, 0, <<>>) EXCEPT
       !.content = p.content,
       !.handles = Append(@, [ref |-> p.ref, cell |-> p.ref, by |-> "initial"]),
       !.runs = Append(@, 0),
       !.reads = Append(@, <<>>)]

\* Graph::initial, lines 114-127.
initial(m, v) ==
    IF GraphBorrowed(m)
    THEN Panic(m, "already borrowed")
    ELSE LET p == push_value(m.content, BaseValue(v)) IN
         [Advance(m, 0, <<>>) EXCEPT
            !.content = p.content,
            !.handles = Append(@, [ref |-> p.ref, cell |-> p.ref, by |-> "initial"]),
            !.runs = Append(@, 0),
            !.reads = Append(@, <<>>)]

\* Graph::compute, lines 136-141: up to the call of the closure.
compute_begin(m, f) ==
    LET r == replace_deps(m.ced, <<>>) IN
    [m EXCEPT !.ced = r.slot,
              !.stack = Append(@, Frame("compute", f, 0, next_ref(m.content), r.old))]

\* Graph::compute, lines 142-196: after the closure has returned.
compute_end(m) ==
    LET f == Top(m)
        r == IF IsSome(f.parent_deps)
             THEN replace_deps(m.ced, Append(Unwrap(f.parent_deps), f.value_ref))
             ELSE take_deps(m.ced)
        m1 == [m EXCEPT !.ced = r.slot]
    IN IF ContentBorrowed(m)
       THEN Panic(m1, "already borrowed")
       ELSE LET p == push_value(m.content, ResultValue(Result(f.acc), r.old, f.code))
                m2 == [m1 EXCEPT
                         !.content = p.content,
                         !.handles = Append(@, [ref |-> f.value_ref, cell |-> p.ref,
                                                by |-> "compute"]),
                         !.runs = Append(@, 1),
                         !.reads = Append(@, f.rd),
                         !.stack = Pop(@)]
            IN Advance(m2, 0, <<>>)

\* A set that, once the value is written, re-evaluates the cell next to the
\* written one when that cell is a Res.
set_eager(m, h, t) ==
    IF with_value(m, h) # "ok"
    THEN Panic(m, with_value(m, h))
    ELSE LET m1 == [m EXCEPT !.content =
                      set_dirty([m.content EXCEPT ![h + 1] = set_value(@, t)], h)]
         IN IF h + 1 < Len(m.content) /\ m.content[h + 2].kind = "Res"
            THEN [m1 EXCEPT
                    !.stack = Append(@, Frame("get", m.content[h + 2].generator,
                                              h + 1, 0, None)),
                    !.runs[h + 2] = @ + 1]
            ELSE Advance(m1, 0, <<>>)

\* SettableNode::set, lines 214-220.
set(m, h, t) ==
    IF with_value(m, h) # "ok"
    THEN Panic(m, with_value(m, h))
    ELSE [Advance(m, 0, <<>>) EXCEPT
            !.content = set_dirty([m.content EXCEPT ![h + 1] = set_value(@, t)], h)]

\* A get that finds its cell already borrowed is a re-entrant access.
NoteReentry(m, h) ==
    IF h < Len(m.content) /\ CellBorrowed(m, h)
    THEN [m EXCEPT !.reent = Some(h)]
    ELSE m

\* An initial or a compute called while a Node::get is running a generator
\* is a node creation during a read.
NoteNested(m) ==
    IF GraphBorrowed(m) THEN [m EXCEPT !.nested = TRUE] ELSE m

\* One step of the code at the top frame.
Step(m) ==
    LET f == Top(m) IN
    IF f.pc <= Len(f.code)
    THEN LET i == f.code[f.pc] IN
         CASE i.op = "get" ->
                IF i.h \in IssuedRefs(m.handles)
                THEN node_get(NoteReentry(m, i.h), i.h)
                ELSE Advance(m, 0, <<>>)
           [] i.op = "getz" ->
                IF f.acc = 0 /\ i.h \in IssuedRefs(m.handles)
                THEN node_get(NoteReentry(m, i.h), i.h)
                ELSE Advance(m, 0, <<>>)
           [] i.op = "initial" -> initial(NoteNested(m), i.v)
           [] i.op = "compute" -> compute_begin(NoteNested(m), i.c)
           [] i.op = "initialnz" ->
                IF f.acc # 0
                THEN initial(NoteNested(m), i.v)
                ELSE Advance(m, 0, <<>>)
           [] i.op = "computenz" ->
                IF f.acc # 0
                THEN compute_begin(NoteNested(m), i.c)
                ELSE Advance(m, 0, <<>>)
           [] i.op = "set" -> set(m, i.h, i.v)
    ELSE CASE f.k = "get" -> generator_return(m)
           [] f.k = "compute" -> compute_end(m)
           [] f.k = "client" -> [m EXCEPT !.stack = <<>>]

RECURSIVE Run(_)
Run(m) == IF m.stack = <<>> THEN m ELSE Run(Step(m))

\* The machine at the start of a client call.
Start(i) ==
    [content |-> content,
     ced |-> current_execution_deps,
     handles |-> handles,
     runs |-> [n \in 1..Len(content) |-> 0],
     reads |-> [n \in 1..Len(content) |-> <<>>],
     stack |-> <<Frame("client", <<i>>, 0, 0, None)>>,
     status |-> "ok",
     ret |-> 0,
     reent |-> None,
     nested |-> FALSE]

\* The call is a get that repeats the call before it, which returned.
Repeats(i) ==
    i.op = "get" /\ last.op = "get" /\ last.h = i.h /\ last.status = "ok"

\* The call is a get that repeats the call before it, which panicked.
Retries(i) ==
    i.op = "get" /\ last.op = "get" /\ last.h = i.h /\ last.status # "ok"

\* A client call: run it, and keep what it left behind.
Call(i) ==
    LET m == Run(Start(i)) IN
    /\ IsSome(m.ced) => Len(Unwrap(m.ced)) <= MaxSlot
    /\ content' = m.content
    /\ current_execution_deps' = m.ced
    /\ handles' = m.handles
    /\ runs' = m.runs
    /\ reads' = m.reads
    /\ last' = [op |-> i.op, h |-> i.h, v |-> i.v,
                status |-> m.status, ret |-> m.ret, reent |-> m.reent,
                nested |-> m.nested,
                dirty0 |-> IF i.op \in {"get", "set"} THEN content[i.h + 1].dirty ELSE FALSE,
                rep |-> Repeats(i),
                retry |-> Retries(i),
                pruns |-> IF Repeats(i) THEN runs[i.h + 1] ELSE 0]

Init ==
    /\ content = <<>>
    /\ current_execution_deps = None
    /\ handles = <<>>
    /\ runs = <<>>
    /\ reads = <<>>
    /\ last = [op |-> "new", h |-> 0, v |-> 0, status |-> "ok", ret |-> 0,
               reent |-> None, nested |-> FALSE, dirty0 |-> FALSE,
               rep |-> FALSE, retry |-> FALSE, pruns |-> 0]

\* The client's calls that grow the graph, in a graph of up to n cells.
InitialUpTo(n) ==
    \E v \in Vals :
        /\ Len(content) < n
        /\ Call(MkInitial(v))

ComputeUpTo(n, C) ==
    \E c \in C :
        /\ Len(content) + Cost(c) <= n
        /\ Call(MkCompute(c))

Initial == InitialUpTo(MaxCells)

\* A closure reads any reference of the graph: a node already there, the
\* node being registered, or one registered later.
Compute == ComputeUpTo(MaxCells, Closures(MaxCells))

Get ==
    \E h \in IssuedRefs(handles) :
        Call(Rd(h))

\* A SettableNode wraps the Node of an input: a handle initial returned.
Set ==
    \E i \in 1..Len(handles), v \in Vals :
        /\ handles[i].by = "initial"
        /\ Call(DoSet(handles[i].ref, v))

Next == Initial \/ Compute \/ Get \/ Set

Spec == Init /\ [][Next]_vars

\* The same program with room for one more cell, for a client whose
\* closures read the nodes already there (as those of tests::graph do).
InitialWide == InitialUpTo(WideCells)

ComputeWide == ComputeUpTo(WideCells, Closures(Len(content)))

NextWide == InitialWide \/ ComputeWide \/ Get \/ Set

SpecWide == Init /\ [][NextWide]_vars

\* The same program under a client whose closures create a node only for
\* some values of the node they read: at construction such a closure may
\* create nothing, and create when a get runs it again.
ComputeNested == ComputeUpTo(MaxCells, NestedClosures(MaxCells))

NextNested == Initial \/ ComputeNested \/ Get \/ Set

SpecNested == Init /\ [][NextNested]_vars

(***************************************************************************)
(* What the claims speak of.                                               *)
(***************************************************************************)
Cells == 0..(Len(content) - 1)
IsRes(r) == content[r + 1].kind = "Res"
IsBase(r) == content[r + 1].kind = "Base"
Returned == last.status = "ok"

\* A from-scratch evaluation of cell r from the Base values, written as a
\* function of the arena and not as a run of the code: the value, or NoValue
\* when the evaluation comes back to a cell it is evaluating.  Creating a
\* node is no read and adds nothing.
NoValue == 0 - 1

RECURSIVE Fresh(_, _, _, _), FreshAcc(_, _, _, _, _, _)
Fresh(c, hs, r, busy) ==
    IF r \in busy THEN NoValue
    ELSE IF c[r + 1].kind = "Base" THEN c[r + 1].value
    ELSE LET a == FreshAcc(c, hs, c[r + 1].generator, 1, 0, busy \cup {r}) IN
         IF a = NoValue THEN NoValue ELSE Result(a)

FreshAcc(c, hs, code, pc, acc, busy) ==
    IF pc > Len(code) THEN acc
    ELSE LET i == code[pc]
             taken == /\ i.op \in {"get", "getz"}
                      /\ i.h \in IssuedRefs(hs)
                      /\ (i.op = "getz" => acc = 0)
             x == IF taken THEN Fresh(c, hs, i.h, busy) ELSE 0
         IN IF x = NoValue THEN NoValue
            ELSE FreshAcc(c, hs, code, pc + 1, acc + x, busy)

\* The references cell n's closure reads (some only for some values read
\* before), and those it reads through other cells.
Reads(c, hs, n) ==
    {c[n + 1].generator[k].h : k \in {j \in 1..Len(c[n + 1].generator) :
        /\ c[n + 1].generator[j].op \in {"get", "getz"}
        /\ c[n + 1].generator[j].h \in IssuedRefs(hs)}}

RECURSIVE ReadsWithin(_, _, _, _)
ReadsWithin(c, hs, S, k) ==
    IF k = 0 THEN S
    ELSE ReadsWithin(c, hs, S \cup UNION {Reads(c, hs, x) : x \in S}, k - 1)

TransReads(c, hs, n) == ReadsWithin(c, hs, Reads(c, hs, n), Len(c))

NoRedundantRecomputation ==
    (last.op = "get" /\ Returned /\ last.rep /\ IsRes(last.h)) =>
        last.pruns + runs[last.h + 1] <= 1

\* C3: when set on a Base node returns, every Derived node that
\* transitively reads it is Dirty, and every Derived node that does not and
\* was Clean before the set is still Clean.
PropagatedInvalidation ==
    [][(last'.op = "set" /\ last'.status = "ok") =>
         \A n \in 0..(Len(content') - 1) :
            content'[n + 1].kind = "Res" =>
               /\ (last'.h \in TransReads(content', handles', n))
                     => content'[n + 1].dirty
               /\ (last'.h \notin TransReads(content', handles', n)
                   /\ ~content[n + 1].dirty)
                     => ~content'[n + 1].dirty]_vars

\* C3's case: a set has returned on a Base node that a Derived node does
\* not read itself but reads through another Derived node.
PropagatedInvalidationWitness ==
    /\ last.op = "set" /\ Returned
    /\ \E n \in Cells, x \in Cells :
          /\ IsRes(n) /\ IsRes(x) /\ n # x
          /\ x \in Reads(content, handles, n)
          /\ last.h \in Reads(content, handles, x)
          /\ last.h \notin Reads(content, handles, n)

\* C4 speaks of the nodes whose dirty flag is false.  There is none: every
\* cell is built Dirty and no call writes the flag.
EveryCellDirty == \A n \in Cells : content[n + 1].dirty

\* C5: when a get on a Dirty Derived node returns, the node is Clean and the
\* value stored in its cell is the value the get returned.
GetCleansAndCaches ==
    (last.op = "get" /\ Returned /\ IsRes(last.h) /\ last.dirty0) =>
        /\ ~content[last.h + 1].dirty
        /\ content[last.h + 1].value = last.ret

\* C6: after a get has re-evaluated a Derived node, the node's deps are
\* exactly the nodes its closure read in that evaluation.
DepsAreLatestReads ==
    (last.op = "get" /\ Returned /\ IsRes(last.h)) =>
        /\ IsSome(content[last.h + 1].deps)
        /\ SeqToSet(Unwrap(content[last.h + 1].deps)) = SeqToSet(reads[last.h + 1])

\* C7: when Derived X and Y both read Base B and Derived Z reads X and Y,
\* one set on B followed by one get on Z invokes the closure of X at most
\* once and the closure of Y at most once.
DiamondOnce ==
    [][\A b \in Cells, x \in Cells, y \in Cells, z \in Cells :
        (/\ last.op = "set" /\ Returned /\ last.h = b
         /\ last'.op = "get" /\ last'.status = "ok" /\ last'.h = z
         /\ IsBase(b) /\ IsRes(x) /\ IsRes(y) /\ IsRes(z)
         /\ x # y /\ x # z /\ y # z
         /\ b \in Reads(content, handles, x)
         /\ b \in Reads(content, handles, y)
         /\ {x, y} \subseteq Reads(content, handles, z))
        => (runs'[x + 1] <= 1 /\ runs'[y + 1] <= 1)]_vars

\* C8: a get that reaches a Derived node whose closure is still running
\* fails with an error (the call neither returns a value nor goes on), and
\* that node is Dirty afterwards.
CycleDetection ==
    IsSome(last.reent) =>
        /\ last.status = "already borrowed"
        /\ IsRes(Unwrap(last.reent))
        /\ content[Unwrap(last.reent) + 1].dirty

\* C8's case: a client get on a Derived node came back to that node through
\* another Derived node: the node does not read itself, it reads a node
\* that reads it, and the closures of both were running.
CycleDetectionWitness ==
    /\ last.op = "get"
    /\ last.reent = Some(last.h)
    /\ last.h \notin Reads(content, handles, last.h)
    /\ \E n \in Cells :
          /\ n # last.h /\ IsRes(n)
          /\ n \in Reads(content, handles, last.h)
          /\ last.h \in Reads(content, handles, n)
          /\ runs[n + 1] = 1 /\ runs[last.h + 1] = 1

\* C9: handles returned by distinct calls carry distinct references, and
\* each handle's reference is the index of the cell its own call appended.
ReferenceUniqueness ==
    \A i \in 1..Len(handles), j \in 1..Len(handles) :
        /\ (i # j => handles[i].ref # handles[j].ref)
        /\ handles[i].ref = handles[i].cell

\* C10: when initial(v) returns, the Base cell it registered is Clean and
\* holds v.
InitialIsClean ==
    (last.op = "initial" /\ Returned) =>
        /\ ~content[Len(content)].dirty
        /\ content[Len(content)].value = last.v

\* The cell the latest call appended last: for a compute, its own.
NewCell == handles[Len(handles)].cell

\* The sum of the values a closure got from the references in rd, each a
\* from-scratch value over the arena c and the handles hs.
RECURSIVE SumFresh(_, _, _)
SumFresh(c, hs, rd) ==
    IF rd = <<>> THEN 0
    ELSE Fresh(c, hs, Head(rd), {}) + SumFresh(c, hs, Tail(rd))

\* C11: a compute that returns has invoked its closure exactly once, and
\* the Derived cell it appended is Dirty and stores that invocation's
\* result: the closure's value over what it read, as the graph stood when
\* compute was called.
ComputeSeedsOnce ==
    [][(last'.op = "compute" /\ last'.status = "ok") =>
         LET new == handles'[Len(handles')].cell IN
         /\ new >= Len(content)
         /\ runs'[new + 1] = 1
         /\ content'[new + 1].kind = "Res"
         /\ content'[new + 1].dirty
         /\ content'[new + 1].value
               = Result(SumFresh(content, handles, reads'[new + 1]))]_vars

\* C11's case: a compute has returned whose closure read a Derived node and
\* stored a value other than the closure's value over no reads.
ComputeSeedsOnceWitness ==
    /\ last.op = "compute" /\ Returned
    /\ \E k \in 1..Len(reads[NewCell + 1]) : IsRes(reads[NewCell + 1][k])
    /\ content[NewCell + 1].value # Result(0)

\* C12: the closure of a Derived node that exists is invoked by no set and
\* by no initial; a call that invokes it (a get, or a compute whose closure
\* gets) finds the node Dirty, so the closure of a Clean node is never
\* invoked.
DemandDriven ==
    [][\A n \in Cells :
         /\ (last'.op \in {"set", "initial"} => runs'[n + 1] = 0)
         /\ (runs'[n + 1] > 0 =>
               /\ last'.op \in {"get", "compute"}
               /\ content[n + 1].dirty
               /\ (last'.op = "get" =>
                     n \in {last'.h} \cup TransReads(content, handles, last'.h)))]_vars

\* C12's case: a set has written a Base node that a Derived node reads, and
\* no closure has run; the Derived node still stores a value that is no
\* longer the one its closure yields.
DemandDrivenWitness ==
    /\ last.op = "set" /\ Returned
    /\ \A n \in Cells : runs[n + 1] = 0
    /\ \E n \in Cells :
          /\ IsRes(n)
          /\ last.h \in Reads(content, handles, n)
          /\ content[n + 1].value # Fresh(content, handles, n, {})

\* C13: when a get panics, every node whose closure was invoked during it
\* (the ones whose evaluation the panic cut short among them) is still
\* Dirty and stores the value it stored before; and a get that repeats a
\* get that panicked on a Derived node invokes that node's closure again.
PoisonedEvaluation ==
    [][(last'.op = "get" /\ last'.status # "ok") =>
         /\ \A n \in Cells :
               runs'[n + 1] > 0 =>
                  /\ content'[n + 1].dirty
                  /\ content'[n + 1].value = content[n + 1].value
         /\ (last'.retry /\ IsRes(last'.h)) => runs'[last'.h + 1] >= 1]_vars

\* C13's case: a get on a Derived node panicked inside the node's closure,
\* after the closure had read another node, and the get has been repeated.
PoisonedEvaluationWitness ==
    /\ last.op = "get" /\ last.status # "ok" /\ last.retry
    /\ IsRes(last.h) /\ runs[last.h + 1] = 1
    /\ content[last.h + 1].dirty
    /\ \E n \in Cells : n # last.h /\ runs[n + 1] > 0

\* C14: when a compute returns, the deps of the Derived cell it appended
\* are exactly the references its closure got during the construction-time
\* evaluation.
DepsAreConstructionReads ==
    (last.op = "compute" /\ Returned) =>
        /\ IsSome(content[NewCell + 1].deps)
        /\ SeqToSet(Unwrap(content[NewCell + 1].deps))
             = SeqToSet(reads[NewCell + 1])

\* What a compute that returns leaves in the recording slot and in the deps
\* of the cell it appended: the slot holds what it held when the compute
\* began, with the new node's reference appended if it held a buffer, and
\* the new cell's deps are a buffer.
ComputeRestoresSlot ==
    (last'.op = "compute" /\ last'.status = "ok") =>
        /\ current_execution_deps'
             = IF IsSome(current_execution_deps)
               THEN Some(Append(Unwrap(current_execution_deps),
                                handles'[Len(handles')].ref))
               ELSE None
        /\ IsSome(content'[handles'[Len(handles')].cell + 1].deps)

\* C15: a compute that returns restores the recording slot as above, and in
\* every state between two client calls, where no evaluation is in
\* progress, the slot is empty.
SlotDiscipline ==
    [][ComputeRestoresSlot /\ current_execution_deps' = None]_vars

\* C16: a set that returns stores v in the Base cell it is called on and
\* leaves that cell's dirty flag, the stored value and the deps of every
\* other cell, the number of cells and the recording slot as they were.
SetFrame ==
    [][(last'.op = "set" /\ last'.status = "ok") =>
         /\ Len(content') = Len(content)
         /\ content'[last'.h + 1].value = last'.v
         /\ content'[last'.h + 1].dirty = content[last'.h + 1].dirty
         /\ \A n \in Cells \ {last'.h} :
               /\ content'[n + 1].value = content[n + 1].value
               /\ content'[n + 1].deps = content[n + 1].deps
         /\ current_execution_deps' = current_execution_deps]_vars

\* C16's case: a set has written a Base node while the arena holds another
\* Base node with a different value and a Derived node that has deps.
SetFrameWitness ==
    /\ last.op = "set" /\ Returned /\ IsBase(last.h)
    /\ content[last.h + 1].value = last.v
    /\ \E n \in Cells \ {last.h} :
          IsBase(n) /\ content[n + 1].value # last.v
    /\ \E n \in Cells : IsRes(n) /\ IsSome(content[n + 1].deps)

\* C17: no call removes a cell or changes a cell's kind; after every call
\* the reference of every handle returned so far is smaller than the number
\* of cells, and the call has not panicked in with_value's lookup-failure
\* branch.
ReferencesResolve ==
    [][/\ Len(content') >= Len(content)
       /\ \A n \in Cells : content'[n + 1].kind = content[n + 1].kind
       /\ \A i \in 1..Len(handles') : handles'[i].ref < Len(content')
       /\ last'.status # "this should never happen"]_vars

\* C17's case: a get has returned on a handle whose reference is not the
\* index of the cell that was appended for it.
ReferencesResolveWitness ==
    /\ last.op = "get" /\ Returned
    /\ \E i \in 1..Len(handles) :
          handles[i].ref = last.h /\ handles[i].cell # last.h

\* C18: a call in which initial or compute was called from a closure
\* running under Node::get panics with the refused borrow and appends no
\* cell; and no get changes the number of cells or returns a new handle.
NoCreationDuringRead ==
    [][/\ last'.nested =>
            /\ last'.status = "already borrowed"
            /\ Len(content') = Len(content)
       /\ last'.op = "get" =>
            /\ Len(content') = Len(content)
            /\ handles' = handles]_vars

\* C18's case: a get ran the closure of a Derived node and that closure
\* called compute.
NoCreationDuringReadWitness ==
    /\ last.op = "get" /\ last.nested /\ IsRes(last.h)
    /\ runs[last.h + 1] = 1
    /\ \E k \in 1..Len(content[last.h + 1].generator) :
          content[last.h + 1].generator[k].op = "computenz"

====
